---- MODULE Spec2Model ----
(***************************************************************************)
(* KnowledgeScout (src/app.py): the /upload and /ask handlers over the     *)
(* per-user text store, and the retrieval pipeline of ask_question:        *)
(* segmentation, TF-IDF vectorization, cosine ranking with the confidence  *)
(* gate, and answer synthesis.                                             *)
(*                                                                         *)
(* A Python str is modelled as a Text: a sequence of runs <<c, n>>, the    *)
(* character c repeated n >= 1 times, no two adjacent runs sharing their   *)
(* character.  Two strs are equal iff their Texts are equal, and a str of  *)
(* thousands of characters stays a short sequence, so the limits 2000 and  *)
(* 1200 of the code keep their values.                                     *)
(***************************************************************************)
EXTENDS Integers, Sequences, FiniteSets, TLC

(***************************************************************************)
(* Bounds of the model.                                                    *)
(***************************************************************************)
\* A stored document is a concatenation of at most MaxPieces fragments.
MaxPieces == 4
\* Length of the long word of the fragments that build run-on documents.
LongRun == 1000
\* Requests (uploads and questions) the server model accepts in one run.
MaxRequests == 3

(***************************************************************************)
(* Program constants.                                                      *)
(***************************************************************************)
\* sentences = [raw[:2000]]
FallbackLen == 2000
\* top_k = 3
top_k == 3
\* score_threshold = 0.20, in hundredths: similarities are modelled in
\* hundredths, 0 .. 100 standing for 0.00 .. 1.00.
score_threshold == 20
\* answer = ' '.join(matched)[:1200]
AnswerCap == 1200

(***************************************************************************)
(* Characters.                                                             *)
(***************************************************************************)
\* str.isspace() / the regex class \s
IsSpace(c) == c \in {" ", "\n", "\r", "\t"}

\* the regex class [\.!?] of the sentence split
IsTerminal(c) == c \in {".", "!", "?"}

\* the regex class \w of TfidfVectorizer's token_pattern
IsWord(c) == c \in {"k", "K", "s", "S", "i", "I"}

\* str.lower() on one character
LowerCh(c) ==
    CASE c = "K" -> "k"
      [] c = "S" -> "s"
      [] c = "I" -> "i"
      [] OTHER -> c

(***************************************************************************)
(* Texts.                                                                  *)
(***************************************************************************)
RECURSIVE Norm(_)
\* The Text of a sequence of runs: empty runs dropped, adjacent runs of one
\* character merged.
Norm(s) ==
    IF s = <<>> THEN <<>>
    ELSE LET r == Head(s)
             rest == Norm(Tail(s))
         IN IF r[2] = 0 THEN rest
            ELSE IF rest # <<>> /\ rest[1][1] = r[1]
                 THEN << <<r[1], r[2] + rest[1][2]>> >> \o Tail(rest)
                 ELSE <<r>> \o rest

\* s + t
Cat(s, t) == Norm(s \o t)

RECURSIVE StrLen(_)
\* len(s)
StrLen(s) == IF s = <<>> THEN 0 ELSE s[1][2] + StrLen(Tail(s))

RECURSIVE Take(_, _)
\* s[:k]
Take(s, k) ==
    IF k <= 0 \/ s = <<>> THEN <<>>
    ELSE IF s[1][2] >= k THEN << <<s[1][1], k>> >>
         ELSE <<s[1]>> \o Take(Tail(s), k - s[1][2])

RECURSIVE Drop(_, _)
\* s[k:]
Drop(s, k) ==
    IF s = <<>> THEN <<>>
    ELSE IF k <= 0 THEN s
         ELSE IF s[1][2] > k THEN << <<s[1][1], s[1][2] - k>> >> \o Tail(s)
              ELSE Drop(Tail(s), k - s[1][2])

RECURSIVE LStrip(_)
LStrip(s) == IF s # <<>> /\ IsSpace(s[1][1]) THEN LStrip(Tail(s)) ELSE s

RECURSIVE RStrip(_)
RStrip(s) ==
    IF s # <<>> /\ IsSpace(s[Len(s)][1])
    THEN RStrip(SubSeq(s, 1, Len(s) - 1))
    ELSE s

\* s.strip()
Strip(s) == RStrip(LStrip(s))

\* s.lower()
Lower(s) == Norm([i \in 1..Len(s) |-> <<LowerCh(s[i][1]), s[i][2]>>])

(***************************************************************************)
(* Segmentation (ask_question, lines 194-200).                             *)
(***************************************************************************)
\* doc_text.replace("\r\n", "\n"): a run of n "\r" followed by "\n" holds
\* exactly one "\r\n".
ReplaceCRLF(s) ==
    Norm([i \in 1..Len(s) |->
            IF s[i][1] = "\r" /\ i < Len(s) /\ s[i + 1][1] = "\n"
            THEN <<"\r", s[i][2] - 1>>
            ELSE s[i]])

\* .replace("\r", "\n")
ReplaceCR(s) ==
    Norm([i \in 1..Len(s) |-> IF s[i][1] = "\r" THEN <<"\n", s[i][2]>> ELSE s[i]])

\* raw = doc_text.replace("\r\n", "\n").replace("\r", "\n")
NormalizeNewlines(doc) == ReplaceCR(ReplaceCRLF(doc))

RECURSIVE SkipSpace(_, _)
\* The end of the greedy \s+ that starts at run i: the first run from i on
\* that is not whitespace.
SkipSpace(s, i) ==
    IF i <= Len(s) /\ IsSpace(s[i][1]) THEN SkipSpace(s, i + 1) ELSE i

RECURSIVE SplitFrom(_, _, _)
\* re.split(r'(?<=[\.!?])\s+|\n+', raw) from run i on, cur being the piece
\* collected since the last match.  A match starts where a run starts: the
\* first alternative after a terminal character at whitespace, taking all
\* the whitespace that follows; the second at a run of "\n", taking it.
SplitFrom(s, i, cur) ==
    IF i > Len(s) THEN <<cur>>
    ELSE IF IsSpace(s[i][1]) /\ i > 1 /\ IsTerminal(s[i - 1][1])
         THEN <<cur>> \o SplitFrom(s, SkipSpace(s, i), <<>>)
         ELSE IF s[i][1] = "\n"
              THEN <<cur>> \o SplitFrom(s, i + 1, <<>>)
              ELSE SplitFrom(s, i + 1, Append(cur, s[i]))

\* parts = re.split(...)
RegexSplit(raw) == SplitFrom(raw, 1, <<>>)

RECURSIVE Collapse(_)
\* re.sub('\s+', ' ', p)
Collapse(p) ==
    IF p = <<>> THEN <<>>
    ELSE IF IsSpace(p[1][1])
         THEN Norm(<< <<" ", 1>> >> \o Collapse(LStrip(p)))
         ELSE Norm(<<p[1]>> \o Collapse(Tail(p)))

\* p and p.strip()
KeepPart(p) == p # <<>> /\ Strip(p) # <<>>

\* [re.sub('\s+', ' ', p).strip() for p in parts if p and p.strip()]
CleanParts(parts) ==
    LET kept == SelectSeq(parts, KeepPart)
    IN [i \in 1..Len(kept) |-> Strip(Collapse(kept[i]))]

\* if not sentences: sentences = [raw[:2000]]
Fallback(raw) == << Take(raw, FallbackLen) >>

\* Segment with the 2000-character cut applied to every unit instead of to
\* the fallback alone.
SegmentCapped(doc) ==
    LET raw == NormalizeNewlines(doc)
        sents == CleanParts(RegexSplit(raw))
    IN IF sents = <<>> THEN Fallback(raw)
       ELSE [i \in 1..Len(sents) |-> Take(sents[i], FallbackLen)]

\* sentences, from doc_text
Segment(doc) ==
    LET raw == NormalizeNewlines(doc)
        sents == CleanParts(RegexSplit(raw))
    IN IF sents = <<>> THEN Fallback(raw) ELSE sents

(***************************************************************************)
(* Vectorization (ask_question, lines 212-220).  TfidfVectorizer with      *)
(* ngram_range=(1,2) and stop_words='english' analyses a text into its     *)
(* terms; the tf-idf weights and the cosine are floating-point numbers,    *)
(* of which the model keeps what the pipeline reads: the order of the      *)
(* scores and their place relative to the threshold.                       *)
(***************************************************************************)
RECURSIVE WordGroups(_, _)
\* The maximal runs of word characters of s, in order (cur: the one being read).
WordGroups(s, cur) ==
    IF s = <<>> THEN (IF cur = <<>> THEN <<>> ELSE <<cur>>)
    ELSE IF IsWord(s[1][1])
         THEN WordGroups(Tail(s), Append(cur, s[1]))
         ELSE (IF cur = <<>> THEN <<>> ELSE <<cur>>) \o WordGroups(Tail(s), <<>>)

\* token_pattern (?u)\b\w\w+\b: words of two or more characters
IsToken(w) == StrLen(w) >= 2

\* The words of sklearn's ENGLISH_STOP_WORDS that the model's letters spell.
StopWords == { << <<"i", 1>>, <<"s", 1>> >> }

IsContentWord(w) == w \notin StopWords

\* The tokens of a text: lower-cased, split into words, stop words removed.
Tokens(s) ==
    SelectSeq(SelectSeq(WordGroups(Lower(s), <<>>), IsToken), IsContentWord)

\* The terms of a text: its unigrams, then its bigrams (two tokens in a row,
\* joined by a space).
Analyze(s) ==
    LET toks == Tokens(s)
    IN toks \o [i \in 1..(Len(toks) - 1) |->
                    toks[i] \o << <<" ", 1>> >> \o toks[i + 1]]

\* vectorizer.vocabulary_ after fitting on the corpus
Vocabulary(corpus) ==
    UNION { {Analyze(corpus[i])[j] : j \in 1..Len(Analyze(corpus[i]))}
            : i \in 1..Len(corpus) }

\* fit_transform raises ValueError("empty vocabulary; ...") when no term is left
FitTransformRaises(corpus) == Vocabulary(corpus) = {}

\* The row of the term-count matrix for one text.
CountVector(s, vocab) ==
    LET terms == Analyze(s)
    IN [t \in vocab |-> Cardinality({j \in 1..Len(terms) : terms[j] = t})]

\* Whether two rows have a positive dot product: they share a term.
SharesTerm(v, w) == \E t \in DOMAIN v : v[t] > 0 /\ w[t] > 0

\* The values a similarity takes in the model, in hundredths: 0, below the
\* threshold, exactly the threshold, above it, and 1.
ScoreLevels == {0, 19, 20, 60, 100}

\* vectors = vectorizer.fit_transform(...): the term-count rows of the
\* corpus, on which the tf-idf weights are positive.
RowVectors(corpus) ==
    LET vocab == Vocabulary(corpus)
    IN [i \in 1..Len(corpus) |-> CountVector(corpus[i], vocab)]

\* cosine_similarity(q_vec, s_vecs).flatten(): the score vectors the library
\* can return for rows vec (the units, then the question).  tf-idf weights
\* are positive exactly on the terms a text holds, so a score is 0 iff the
\* unit shares no term with the question; equal rows score equally; and a
\* row scores 1 iff it equals the question's (and is not all zero).
ScoresFor(vec) ==
    LET n == Len(vec) - 1
    IN { f \in [1..n -> ScoreLevels] :
           \A i \in 1..n :
              /\ (f[i] = 0) <=> ~SharesTerm(vec[i], vec[n + 1])
              /\ (f[i] = 100) <=> (vec[i] = vec[n + 1] /\ SharesTerm(vec[i], vec[n + 1]))
              /\ \A j \in 1..n : (vec[i] = vec[j]) => (f[i] = f[j]) }

\* similarities, for the corpus (the units, then the question)
CosineOutcomes(corpus) == UNION { ScoresFor(vec) : vec \in {RowVectors(corpus)} }

(***************************************************************************)
(* Ranking (ask_question, lines 222-230).  Indices are 1-based here.       *)
(***************************************************************************)
\* similarities.argsort(): numpy's default sort is not stable, so every
\* permutation that puts the scores in ascending order is an outcome.
ArgsortOutcomes(sim) ==
    LET n == Len(sim)
    IN { p \in [1..n -> 1..n] :
           /\ \A i, j \in 1..n : i # j => p[i] # p[j]
           /\ \A i \in 1..(n - 1) : sim[p[i]] <= sim[p[i + 1]] }

\* argsort's ascending order kept, the [::-1] forgotten.
NoReverse(seq) == seq

\* seq[::-1]
Reverse(seq) == [i \in 1..Len(seq) |-> seq[Len(seq) + 1 - i]]

\* seq[:k] of a list
FirstK(seq, k) == SubSeq(seq, 1, IF Len(seq) < k THEN Len(seq) ELSE k)

\* ranked_idx = similarities.argsort()[::-1][:top_k], given the argsort
RankedIdx(order) == FirstK(Reverse(order), top_k)

\* top_scores = similarities[ranked_idx]
TopScores(sim, ranked) == [i \in 1..Len(ranked) |-> sim[ranked[i]]]

\* The gate with <= for <: a best score of exactly the threshold fails it.
GateFailsInclusive(top) == Len(top) = 0 \/ top[1] <= score_threshold

\* top_scores.size == 0 or top_scores[0] < score_threshold
GateFails(top) == Len(top) = 0 \/ top[1] < score_threshold

(***************************************************************************)
(* Synthesis (ask_question, lines 232-245).                                *)
(***************************************************************************)
\* if score < score_threshold: continue
BelowThreshold(score) == score < score_threshold

\* The acceptance test without the look-up in used.
AcceptsAny(t, used) == t # <<>>

\* text and text not in used
Accepts(t, used) == t # <<>> /\ t \notin used

RECURSIVE MatchLoop(_, _, _, _, _)
\* The loop over zip(ranked_idx, top_scores) from position i on; used is
\* the set of the texts in matched.
MatchLoop(sents, ranked, top, i, matched_) ==
    IF i > Len(ranked) THEN matched_
    ELSE LET t == Strip(sents[ranked[i]])
             used == {matched_[j] : j \in 1..Len(matched_)}
         IN IF BelowThreshold(top[i]) THEN MatchLoop(sents, ranked, top, i + 1, matched_)
            ELSE IF Accepts(t, used)
                 THEN MatchLoop(sents, ranked, top, i + 1, Append(matched_, t))
                 ELSE MatchLoop(sents, ranked, top, i + 1, matched_)

\* matched, after the loop
Matched(sents, ranked, top) == MatchLoop(sents, ranked, top, 1, <<>>)

RECURSIVE Join(_)
\* ' '.join(texts)
Join(texts) ==
    IF texts = <<>> THEN <<>>
    ELSE IF Len(texts) = 1 THEN texts[1]
         ELSE Cat(Cat(texts[1], << <<" ", 1>> >>), Join(Tail(texts)))

\* The join without the cut.
BuildAnswerUncut(matched_) == Join(matched_)

\* ' '.join(matched)[:1200]
BuildAnswer(matched_) == Take(Join(matched_), AnswerCap)

(***************************************************************************)
(* The text store (lines 69-79) and the upload paths (lines 163-167).      *)
(***************************************************************************)
\* Registered user names (signup accepts any non-empty name).
Users == {"a", "a_b"}

\* ALLOWED_EXT
ALLOWED_EXT == {".pdf", ".docx", ".txt"}

\* Uploaded file names, as <<stem, extension>>: splitext cuts between them.
FileNames == { <<"b", ".txt">>, <<"../n", ".PDF">>, <<"x", ".exe">>, <<"", "">> }

\* secure_filename(file.filename): path separators and leading dots go.
secure_filename(f) == IF f[1] = "../n" THEN <<"n", f[2]>> ELSE f

\* os.path.splitext(filename)[1].lower()
LowerExt(f) == IF f[2] = ".PDF" THEN ".pdf" ELSE f[2]

\* os.path.join(UPLOAD_FOLDER, f"{session['username']}_{filename}")
SavePath(u, f) == u \o "_" \o f[1] \o f[2]

\* os.path.join(UPLOAD_FOLDER, f"{username}.txt")
UserTxt(u) == u \o ".txt"

\* load_extracted_text_for_user(username), fs being the files on disk
Load(fs, u) == IF UserTxt(u) \in DOMAIN fs THEN fs[UserTxt(u)] ELSE <<>>

\* fs with path holding content (created if missing)
WriteFile(fs, path, content) ==
    [q \in DOMAIN fs \cup {path} |-> IF q = path THEN content ELSE fs[q]]

\* open(user_txt, "w"): the file is created or cut to length 0
Truncate(fs, path) == WriteFile(fs, path, <<>>)

\* f.write(text) and the close that flushes it: text goes over the file
\* from offset 0, what another writer put beyond it staying
WriteAtStart(fs, path, t) ==
    WriteFile(fs, path, Cat(t, Drop(fs[path], StrLen(t))))

(***************************************************************************)
(* Inputs.                                                                 *)
(***************************************************************************)
T_kk == << <<"k", 2>> >>
T_kkDot == << <<"k", 2>>, <<".", 1>> >>
T_ssDot == << <<"s", 2>>, <<".", 1>> >>
T_blank == << <<" ", 1>> >>

\* Fragments of stored documents, each with the whitespace that ends it:
\* "kk. ", "KK.\r\n", "kk ss  is\n", "is? " and the run-on "kk sss...s ".
Pieces ==
    { << <<"k", 2>>, <<".", 1>>, <<" ", 1>> >>,
      << <<"K", 2>>, <<".", 1>>, <<"\r", 1>>, <<"\n", 1>> >>,
      << <<"k", 2>>, <<" ", 1>>, <<"s", 2>>, <<" ", 2>>, <<"i", 1>>, <<"s", 1>>, <<"\n", 1>> >>,
      << <<"i", 1>>, <<"s", 1>>, <<"?", 1>>, <<" ", 1>> >>,
      << <<"k", 2>>, <<" ", 1>>, <<"s", LongRun>>, <<" ", 1>> >> }

RECURSIVE Concat(_)
\* The Text of the fragments of ps, one after the other.
Concat(ps) == IF ps = <<>> THEN <<>> ELSE Cat(Head(ps), Concat(Tail(ps)))

\* The stored documents of the pipeline runs.
DocSet == { Concat(ps) : ps \in UNION { [1..n -> Pieces] : n \in 0..MaxPieces } }

\* The questions posted: "kk ss", "Is " and " ".
Questions ==
    { << <<"k", 2>>, <<" ", 1>>, <<"s", 2>> >>,
      << <<"I", 1>>, <<"s", 1>>, <<" ", 1>> >>,
      T_blank }

\* The contents of uploaded files: "kk.", "ss." and " "; a file whose name
\* is refused is never read.
UploadTexts(f) ==
    IF f \in { <<"x", ".exe">>, <<"", "">> } THEN { T_kkDot }
    ELSE { T_kkDot, T_ssDot, T_blank }

\* The questions posted to the server: "kk" and " ".
ServerQuestions == { T_kk, T_blank }

\* request.files of an upload: no file part, or a file name and its content.
UploadForms ==
    { [file |-> FALSE] }
      \cup UNION { { [file |-> TRUE, filename |-> f, content |-> c] :
                        c \in UploadTexts(f) } : f \in FileNames }

(***************************************************************************)
(* Responses.                                                              *)
(***************************************************************************)
MsgEmptyQuestion == "Ask a non-empty question"
MsgNoDocument == "No document uploaded yet. Please upload first."
ErrEmptyVocabulary == "empty vocabulary; perhaps the documents only contain stop words"

\* jsonify({...}), status: kind names the return statement taken, msg is the
\* fixed message and text the answer built from the document.
Response(kind, status, msg, t) ==
    [kind |-> kind, status |-> status, msg |-> msg, text |-> t]

NoResponse == Response("none", 0, "", <<>>)

MsgNoConfident == "I couldn't find a confident answer in the uploaded document."

\* The except clause answering as the confidence gate does.
CaughtAsNoMatch(e) == Response("NoConfidentMatch", 200, MsgNoConfident, <<>>)

\* except Exception as e: answer = "Could not compute answer: " + str(e)
Caught(e) == Response("ComputationFailure", 200, "Could not compute answer: " \o e, <<>>)

\* An exception that leaves the handler: Flask answers 500.
Uncaught(e) == Response("UnhandledFault", 500, e, <<>>)

(***************************************************************************)
(* State.                                                                  *)
(***************************************************************************)
\* The request threads: two, enough for an upload to run beside a question
\* or beside another upload.
Procs == {1, 2}

VARIABLES
    files,         \* the upload folder: path -> content
    pc,            \* per request thread: where its handler stands
    user,          \* session["username"]
    question,      \* ask: question
    doc_text,      \* ask: doc_text
    sentences,     \* ask: sentences
    similarities,  \* ask: similarities
    ranked_idx,    \* ask: ranked_idx
    matched,       \* ask: matched
    form,          \* upload: request.files
    text,          \* upload: text
    response,      \* what the handler returned
    ran,           \* ask: the stages the handler has run
    lastOwn,       \* per user: the text of the user's last completed save
    nreq           \* requests accepted so far

vars == <<files, pc, user, question, doc_text, sentences, similarities,
          ranked_idx, matched, form, text, response, ran, lastOwn, nreq>>

askLocals == <<question, doc_text, sentences, similarities, ranked_idx, matched, ran>>
uploadLocals == <<form, text>>

InitLocals ==
    /\ pc = [p \in Procs |-> "idle"]
    /\ user = [p \in Procs |-> "a"]
    /\ question = [p \in Procs |-> <<>>]
    /\ doc_text = [p \in Procs |-> <<>>]
    /\ sentences = [p \in Procs |-> <<>>]
    /\ similarities = [p \in Procs |-> <<>>]
    /\ ranked_idx = [p \in Procs |-> <<>>]
    /\ matched = [p \in Procs |-> <<>>]
    /\ form = [p \in Procs |-> [file |-> FALSE]]
    /\ text = [p \in Procs |-> <<>>]
    /\ response = [p \in Procs |-> NoResponse]
    /\ ran = [p \in Procs |-> {}]
    /\ nreq = 0

\* The server after start-up: an empty upload folder.
Init ==
    /\ files = [q \in {} |-> <<>>]
    /\ lastOwn = [u \in Users |-> <<>>]
    /\ InitLocals

\* The server with user "a" holding a stored document.
InitPipe ==
    /\ \E d \in DocSet :
          /\ files = [q \in (IF d = <<>> THEN {} ELSE {UserTxt("a")}) |-> d]
          /\ lastOwn = [u \in Users |-> IF u = "a" THEN d ELSE <<>>]
    /\ InitLocals

\* The handler of p returns r.
Return(p, r) ==
    /\ response' = [response EXCEPT ![p] = r]
    /\ pc' = [pc EXCEPT ![p] = "done"]

Goto(p, label) ==
    /\ pc' = [pc EXCEPT ![p] = label]
    /\ UNCHANGED response

(***************************************************************************)
(* ask_question (lines 184-248).                                           *)
(***************************************************************************)
\* if not question
BlankQuestion(q) == q = <<>>

\* question = data.get("question", "").strip(); if not question: return
AskBegin(p, u, q) ==
    /\ pc[p] = "idle"
    /\ nreq' = nreq + 1
    /\ user' = [user EXCEPT ![p] = u]
    /\ question' = [question EXCEPT ![p] = Strip(q)]
    /\ IF BlankQuestion(Strip(q))
       THEN Return(p, Response("EmptyQuestion", 200, MsgEmptyQuestion, <<>>))
       ELSE Goto(p, "load")
    /\ UNCHANGED <<files, doc_text, sentences, similarities, ranked_idx, matched,
                   ran, uploadLocals, lastOwn>>

\* The test without the strip: a whitespace-only text counts as a document.
BlankDocumentNoStrip(d) == d = <<>>

\* if not doc_text.strip()
BlankDocument(d) == Strip(d) = <<>>

\* doc_text = load_extracted_text_for_user(...); if not doc_text.strip(): return
AskLoad(p) ==
    /\ pc[p] = "load"
    /\ doc_text' = [doc_text EXCEPT ![p] = Load(files, user[p])]
    /\ ran' = [ran EXCEPT ![p] = @ \cup {"load"}]
    /\ IF BlankDocument(Load(files, user[p]))
       THEN Return(p, Response("NoDocument", 200, MsgNoDocument, <<>>))
       ELSE Goto(p, "segment")
    /\ UNCHANGED <<files, user, question, sentences, similarities, ranked_idx,
                   matched, uploadLocals, lastOwn, nreq>>

\* lines 194-200
AskSegment(p) ==
    /\ pc[p] = "segment"
    /\ sentences' = [sentences EXCEPT ![p] = Segment(doc_text[p])]
    /\ ran' = [ran EXCEPT ![p] = @ \cup {"segment"}]
    /\ Goto(p, "vectorize")
    /\ UNCHANGED <<files, user, question, doc_text, similarities, ranked_idx,
                   matched, uploadLocals, lastOwn, nreq>>

\* processed_sentences + [proc_question]
Corpus(sents, q) == [i \in 1..Len(sents) |-> Lower(sents[i])] \o <<Lower(q)>>

\* What becomes of an exception raised inside the try block (lines 202-247).
OnException(e) == Caught(e)

\* lines 212-220, inside the try
AskVectorize(p) ==
    /\ pc[p] = "vectorize"
    /\ ran' = [ran EXCEPT ![p] = @ \cup {"vectorize"}]
    /\ IF FitTransformRaises(Corpus(sentences[p], question[p]))
       THEN /\ Return(p, OnException(ErrEmptyVocabulary))
            /\ UNCHANGED similarities
       ELSE /\ \E sim \in CosineOutcomes(Corpus(sentences[p], question[p])) :
                  similarities' = [similarities EXCEPT ![p] = sim]
            /\ Goto(p, "rank")
    /\ UNCHANGED <<files, user, question, doc_text, sentences, ranked_idx,
                   matched, uploadLocals, lastOwn, nreq>>

\* lines 222-230
AskRank(p) ==
    /\ pc[p] = "rank"
    /\ ran' = [ran EXCEPT ![p] = @ \cup {"rank"}]
    /\ \E order \in ArgsortOutcomes(similarities[p]) :
          /\ ranked_idx' = [ranked_idx EXCEPT ![p] = RankedIdx(order)]
          /\ IF GateFails(TopScores(similarities[p], RankedIdx(order)))
             THEN Return(p, Response("NoConfidentMatch", 200, MsgNoConfident, <<>>))
             ELSE Goto(p, "synthesize")
    /\ UNCHANGED <<files, user, question, doc_text, sentences, similarities,
                   matched, uploadLocals, lastOwn, nreq>>

\* lines 232-245
AskSynthesize(p) ==
    /\ pc[p] = "synthesize"
    /\ ran' = [ran EXCEPT ![p] = @ \cup {"synthesize"}]
    /\ LET m == Matched(sentences[p], ranked_idx[p],
                        TopScores(similarities[p], ranked_idx[p]))
       IN /\ matched' = [matched EXCEPT ![p] = m]
          /\ IF m = <<>>
             THEN Return(p, Response("NoConfidentMatch", 200, MsgNoConfident, <<>>))
             ELSE Return(p, Response("Answered", 200, "", BuildAnswer(m)))
    /\ UNCHANGED <<files, user, question, doc_text, sentences, similarities,
                   ranked_idx, uploadLocals, lastOwn, nreq>>

(***************************************************************************)
(* upload_file (lines 157-180).                                            *)
(***************************************************************************)
\* lines 158-168: the checks, then file.save(save_path)
UploadBegin(p, u, fm) ==
    /\ pc[p] = "idle"
    /\ nreq' = nreq + 1
    /\ user' = [user EXCEPT ![p] = u]
    /\ form' = [form EXCEPT ![p] = fm]
    /\ IF ~fm.file
       THEN /\ Return(p, Response("BadRequest", 400, "No file part", <<>>))
            /\ UNCHANGED files
       ELSE IF fm.filename = <<"", "">>
            THEN /\ Return(p, Response("BadRequest", 400, "No selected file", <<>>))
                 /\ UNCHANGED files
            ELSE IF LowerExt(secure_filename(fm.filename)) \notin ALLOWED_EXT
                 THEN /\ Return(p, Response("BadRequest", 400, "Unsupported file type", <<>>))
                      /\ UNCHANGED files
                 ELSE /\ files' = WriteFile(files, SavePath(u, secure_filename(fm.filename)),
                                            fm.content)
                      /\ Goto(p, "extract")
    /\ UNCHANGED <<askLocals, text, lastOwn>>

\* The texts extraction can yield from the saved file: a .txt is read back;
\* a PDF or DOCX is parsed, and yields "" when the parser fails.
Extracted(fs, u, fm) ==
    LET f == secure_filename(fm.filename)
        saved == fs[SavePath(u, f)]
    IN IF LowerExt(f) = ".txt" THEN {saved} ELSE {saved, <<>>}

\* lines 170-178
UploadExtract(p) ==
    /\ pc[p] = "extract"
    /\ \E t \in Extracted(files, user[p], form[p]) :
          /\ text' = [text EXCEPT ![p] = t]
          /\ IF Strip(t) = <<>>
             THEN Return(p, Response("NoText", 200, "Uploaded but no text extracted", <<>>))
             ELSE Goto(p, "open")
    /\ UNCHANGED <<files, user, askLocals, form, lastOwn, nreq>>

\* save_extracted_text_for_user: open(user_txt, "w", ...)
UploadOpen(p) ==
    /\ pc[p] = "open"
    /\ files' = Truncate(files, UserTxt(user[p]))
    /\ Goto(p, "write")
    /\ UNCHANGED <<user, askLocals, uploadLocals, lastOwn, nreq>>

\* save_extracted_text_for_user: f.write(text), flushed when the with block
\* closes the file; then the handler returns
UploadWrite(p) ==
    /\ pc[p] = "write"
    /\ files' = WriteAtStart(files, UserTxt(user[p]), text[p])
    /\ lastOwn' = [lastOwn EXCEPT ![user[p]] = text[p]]
    /\ Return(p, Response("Uploaded", 200, "File uploaded and processed successfully", <<>>))
    /\ UNCHANGED <<user, askLocals, uploadLocals, nreq>>

\* The response is sent and the thread takes the next request.
Respond(p) ==
    /\ pc[p] = "done"
    /\ pc' = [pc EXCEPT ![p] = "idle"]
    /\ response' = [response EXCEPT ![p] = NoResponse]
    /\ question' = [question EXCEPT ![p] = <<>>]
    /\ doc_text' = [doc_text EXCEPT ![p] = <<>>]
    /\ sentences' = [sentences EXCEPT ![p] = <<>>]
    /\ similarities' = [similarities EXCEPT ![p] = <<>>]
    /\ ranked_idx' = [ranked_idx EXCEPT ![p] = <<>>]
    /\ matched' = [matched EXCEPT ![p] = <<>>]
    /\ ran' = [ran EXCEPT ![p] = {}]
    /\ form' = [form EXCEPT ![p] = [file |-> FALSE]]
    /\ text' = [text EXCEPT ![p] = <<>>]
    /\ UNCHANGED <<files, user, lastOwn, nreq>>

(***************************************************************************)
(* Specifications.                                                         *)
(***************************************************************************)
\* A question arrives at the server.
Ask(p, u, q) == nreq < MaxRequests /\ AskBegin(p, u, q)

\* An upload arrives at the server.
Upload(p, u, fm) == nreq < MaxRequests /\ UploadBegin(p, u, fm)

\* The server: uploads and questions of the users on concurrent threads.
Next ==
    \E p \in Procs :
       \/ \E u \in Users, q \in ServerQuestions : Ask(p, u, q)
       \/ \E u \in Users, fm \in UploadForms : Upload(p, u, fm)
       \/ AskLoad(p)
       \/ AskSegment(p)
       \/ AskVectorize(p)
       \/ AskRank(p)
       \/ AskSynthesize(p)
       \/ UploadExtract(p)
       \/ UploadOpen(p)
       \/ UploadWrite(p)
       \/ Respond(p)

Spec == Init /\ [][Next]_vars

\* The one question of a pipeline run, by user "a" on thread 1.
PipeAsk(q) == nreq = 0 /\ AskBegin(1, "a", q)

\* One question against a stored document.
NextPipe ==
    \/ \E q \in Questions : PipeAsk(q)
    \/ AskLoad(1)
    \/ AskSegment(1)
    \/ AskVectorize(1)
    \/ AskRank(1)
    \/ AskSynthesize(1)

PipeSpec == InitPipe /\ [][NextPipe]_vars

(***************************************************************************)
(* Properties.                                                             *)
(***************************************************************************)
\* The elements of a sequence.
Range(seq) == {seq[i] : i \in 1..Len(seq)}

\* The highest of the scores of a non-empty score vector.
Best(sim) == CHOOSE m \in Range(sim) : \A v \in Range(sim) : v <= m

\* The threads whose question went through scoring.
Scored(p) == "vectorize" \in ran[p] /\ similarities[p] # <<>>

\* The text of the unit at rank position i, and whether it passes the threshold.
RankedText(p, i) == sentences[p][ranked_idx[p][i]]
Qualifies(p, i) == similarities[p][ranked_idx[p][i]] >= score_threshold

\* The rank positions whose unit qualifies and has text t.
PositionsOf(p, t) ==
    {i \in 1..Len(ranked_idx[p]) : Qualifies(p, i) /\ RankedText(p, i) = t}

\* The first (best-ranked) of a non-empty set of positions.
First(S) == CHOOSE i \in S : \A j \in S : i <= j

\* C1: Threshold gate.  Once a question has been scored against a non-blank
\* document and answered: if the best similarity among the units is below
\* 0.20 the result is NoConfidentMatch; if it is 0.20 or more (0.20 itself
\* included) the result is Answered and carries a non-empty answer text.
C1_ThresholdGate ==
    \A p \in Procs :
       (pc[p] = "done" /\ Scored(p)) =>
          /\ Best(similarities[p]) < score_threshold =>
                /\ response[p].kind = "NoConfidentMatch"
                /\ response[p].msg = MsgNoConfident
          /\ Best(similarities[p]) >= score_threshold =>
                /\ response[p].kind = "Answered"
                /\ response[p].text # <<>>

\* C1 witness: a question answered with the best score exactly at the threshold.
C1_Witness ==
    \E p \in Procs :
       /\ pc[p] = "done" /\ Scored(p)
       /\ Best(similarities[p]) = score_threshold
       /\ response[p].kind = "Answered"

\* C2 as stated: among units of equal score the earlier one wins: the later
\* is never ranked before the earlier, nor selected while the earlier is
\* left out.
C2_TiesByDocumentOrder ==
    \A p \in Procs :
       "rank" \in ran[p] =>
          \A i, j \in 1..Len(similarities[p]) :
             (i < j /\ similarities[p][i] = similarities[p][j]) =>
                \A b \in 1..Len(ranked_idx[p]) :
                   ranked_idx[p][b] = j =>
                      \E a \in 1..(b - 1) : ranked_idx[p][a] = i

\* C2, amended: the ranker selects min(3, n) distinct units, in order of
\* non-increasing similarity, and no unit left out scores higher than a
\* selected one.
C2_RankedDescending ==
    \A p \in Procs :
       "rank" \in ran[p] =>
          LET sim == similarities[p]
              r == ranked_idx[p]
          IN /\ Len(r) = (IF Len(sim) < top_k THEN Len(sim) ELSE top_k)
             /\ \A a, b \in 1..Len(r) : a < b => r[a] # r[b] /\ sim[r[a]] >= sim[r[b]]
             /\ \A u \in 1..Len(sim) :
                   u \notin Range(r) => \A a \in 1..Len(r) : sim[u] <= sim[r[a]]

\* C2 witness: more than three units, and of two units of equal score above
\* the threshold the later one is selected and the earlier one left out.
C2_Witness ==
    \E p \in Procs :
       /\ "rank" \in ran[p]
       /\ Len(similarities[p]) > top_k
       /\ \E i, j \in 1..Len(similarities[p]) :
             /\ i < j
             /\ similarities[p][i] = similarities[p][j]
             /\ similarities[p][i] >= score_threshold
             /\ j \in Range(ranked_idx[p])
             /\ i \notin Range(ranked_idx[p])

\* A text none of whose words is a term: each is a stop word or a single
\* character.
NoUsableTerm(t) ==
    \A w \in Range(WordGroups(Lower(t), <<>>)) : StrLen(w) < 2 \/ w \in StopWords

\* The units and the question of p hold no term at all.
EmptyVocabularyCase(p) ==
    /\ pc[p] = "done"
    /\ "vectorize" \in ran[p]
    /\ NoUsableTerm(question[p])
    /\ \A i \in 1..Len(sentences[p]) : NoUsableTerm(sentences[p][i])

\* C3 as stated: with an empty vocabulary the result is the outcome of a
\* confidence-gate failure (NoConfidentMatch and its message).
C3_EmptyVocabularyIsNoMatch ==
    \A p \in Procs :
       EmptyVocabularyCase(p) =>
          /\ response[p].kind = "NoConfidentMatch"
          /\ response[p].msg = MsgNoConfident

\* C3, amended: with an empty vocabulary the pipeline does not raise: the
\* vectorizer's error is caught and the result, status 200, carries the
\* diagnostic "Could not compute answer: empty vocabulary; ...", which is
\* not the message of a confidence-gate failure.
C3_EmptyVocabularyIsDiagnostic ==
    \A p \in Procs :
       EmptyVocabularyCase(p) =>
          /\ response[p].kind = "ComputationFailure"
          /\ response[p].status = 200
          /\ response[p].msg = "Could not compute answer: " \o ErrEmptyVocabulary
          /\ response[p].msg # MsgNoConfident
          /\ similarities[p] = <<>>

\* C3 witness: a question of stop words only against a document of stop
\* words only has been answered.
C3_Witness ==
    \E p \in Procs : EmptyVocabularyCase(p) /\ Len(sentences[p]) >= 2

\* A run-on document: words separated by spaces, no sentence-terminal
\* punctuation, no newline, more than 2000 characters.
RunOn(d) ==
    /\ \A i \in 1..Len(d) : IsWord(d[i][1]) \/ d[i][1] = " "
    /\ StrLen(d) > FallbackLen

RECURSIVE SumLen(_)
\* The total length of the texts of a sequence.
SumLen(ws) == IF ws = <<>> THEN 0 ELSE StrLen(Head(ws)) + SumLen(Tail(ws))

\* C4 as stated: a run-on document is segmented by the fallback into exactly
\* one unit of length 2000, the first 2000 characters of the text.
C4_RunOnIsCut ==
    \A p \in Procs :
       ("segment" \in ran[p] /\ RunOn(doc_text[p])) =>
          /\ Len(sentences[p]) = 1
          /\ StrLen(sentences[p][1]) = FallbackLen
          /\ sentences[p][1] = Take(NormalizeNewlines(doc_text[p]), FallbackLen)

\* C4, amended: a run-on document is segmented into exactly one unit, which
\* is the whole text, its words in order and one space between two words,
\* not cut to 2000 characters.
C4_RunOnIsWhole ==
    \A p \in Procs :
       ("segment" \in ran[p] /\ RunOn(doc_text[p])) =>
          LET words == WordGroups(doc_text[p], <<>>)
          IN /\ Len(sentences[p]) = 1
             /\ WordGroups(sentences[p][1], <<>>) = words
             /\ StrLen(sentences[p][1]) = SumLen(words) + Len(words) - 1

\* C4 witness: a run-on document has been segmented into a unit of more
\* than 2000 characters.
C4_Witness ==
    \E p \in Procs :
       /\ "segment" \in ran[p]
       /\ RunOn(doc_text[p])
       /\ StrLen(sentences[p][1]) > FallbackLen

\* The responses of ask_question.
AskKinds == {"EmptyQuestion", "NoDocument", "NoConfidentMatch", "Answered",
             "ComputationFailure"}

\* C5: a non-blank question against an empty or whitespace-only stored text
\* returns NoDocument, and then no stage after the load has run; a blank
\* question is rejected before the text is loaded; segmentation runs only
\* on a non-blank question and a non-blank text.
C5_NoDocumentShortCircuit ==
    \A p \in Procs :
       /\ (pc[p] = "done" /\ "load" \in ran[p] /\ Strip(doc_text[p]) = <<>>) =>
             response[p].kind = "NoDocument"
       /\ response[p].kind = "NoDocument" =>
             /\ ran[p] = {"load"}
             /\ question[p] # <<>>
             /\ sentences[p] = <<>> /\ similarities[p] = <<>>
             /\ ranked_idx[p] = <<>> /\ matched[p] = <<>>
       /\ response[p].kind = "EmptyQuestion" =>
             /\ ran[p] = {}
             /\ question[p] = <<>>
             /\ doc_text[p] = <<>>
       /\ "load" \in ran[p] => question[p] # <<>>
       /\ "segment" \in ran[p] => Strip(doc_text[p]) # <<>>

\* C5 witness: a non-blank question was answered NoDocument.
C5_Witness ==
    \E p \in Procs :
       /\ pc[p] = "done"
       /\ response[p].kind = "NoDocument"
       /\ question[p] # <<>>

\* The uploads of user u that are inside save_extracted_text_for_user.
Saving(u) == {q \in Procs : user[q] = u /\ pc[q] \in {"open", "write"}}

\* Some upload of another user is saved at the path of u's stored text.
Collides(u) ==
    \E v \in Users \ {u}, f \in FileNames : SavePath(v, secure_filename(f)) = UserTxt(u)

\* C6 as stated: a question never reads an empty or partly written text
\* while the same user's upload runs: when a document was stored before,
\* the text it loads is the complete old text or the complete new one.
\* (Users whose store no other user's upload can reach.)
C6_ReadsCompleteText ==
    [][\A p \in Procs :
          (/\ pc[p] = "load"
           /\ pc'[p] # "load"
           /\ ~Collides(user[p])
           /\ lastOwn[user[p]] # <<>>) =>
             doc_text'[p] \in {lastOwn[user[p]]} \cup {text[q] : q \in Saving(user[p])}]_vars

\* C10 as stated: while none of a user's own uploads is being saved, the
\* text the user's question loads is the text of that user's last upload
\* that yielded text, or empty if there was none.
C10_OwnUploadsOnly ==
    [][\A p \in Procs :
          (/\ pc[p] = "load"
           /\ pc'[p] # "load"
           /\ Saving(user[p]) = {}) =>
             doc_text'[p] = lastOwn[user[p]]]_vars

\* C7: Deduplication.  The accepted texts hold no string twice; they are
\* exactly the texts of the selected units that pass the threshold; and
\* they stand in the rank order of their first occurrences.
C7_Deduplication ==
    \A p \in Procs :
       "synthesize" \in ran[p] =>
          LET m == matched[p]
          IN /\ \A a, b \in 1..Len(m) : a # b => m[a] # m[b]
             /\ Range(m) = {RankedText(p, i) :
                              i \in {k \in 1..Len(ranked_idx[p]) : Qualifies(p, k)}}
             /\ \A a, b \in 1..Len(m) :
                   a < b => First(PositionsOf(p, m[a])) < First(PositionsOf(p, m[b]))

\* C7 witness: two of the selected units that pass the threshold have the
\* same text, a third passes with another text, and the answer was built.
C7_Witness ==
    \E p \in Procs :
       /\ "synthesize" \in ran[p]
       /\ response[p].kind = "Answered"
       /\ Len(matched[p]) = 2
       /\ \E i, j \in 1..Len(ranked_idx[p]) :
             /\ i < j
             /\ Qualifies(p, i) /\ Qualifies(p, j)
             /\ RankedText(p, i) = RankedText(p, j)

\* t is the start of s.
IsPrefix(t, s) == Cat(t, Drop(s, StrLen(t))) = s

\* C8: Length cap.  The answer of an Answered result is non-empty, has at
\* most 1200 characters, and is the first 1200 characters of the accepted
\* texts joined by single spaces (all of them when they are fewer).
C8_LengthCap ==
    \A p \in Procs :
       response[p].kind = "Answered" =>
          LET joined == Join(matched[p])
              a == response[p].text
          IN /\ a # <<>>
             /\ StrLen(a) <= AnswerCap
             /\ IsPrefix(a, joined)
             /\ StrLen(a) = (IF StrLen(joined) < AnswerCap THEN StrLen(joined) ELSE AnswerCap)
             /\ StrLen(joined) = SumLen(matched[p]) + Len(matched[p]) - 1

\* C8 witness: an answer whose accepted texts, joined, exceed 1200 characters.
C8_Witness ==
    \E p \in Procs :
       /\ response[p].kind = "Answered"
       /\ Len(matched[p]) >= 2
       /\ StrLen(Join(matched[p])) > AnswerCap

\* C9: a question with non-blank text against a non-blank document ends in
\* exactly one well-formed result: Answered with a non-empty text,
\* NoConfidentMatch, or, when vectorization raised, the diagnostic of the
\* caught failure; never an unhandled fault.  No result exists before the
\* handler ends, and the handler is always at one of its stages.
C9_AlwaysWellFormed ==
    \A p \in Procs :
       /\ pc[p] # "done" => response[p] = NoResponse
       /\ pc[p] \in {"idle", "load", "segment", "vectorize", "rank", "synthesize", "done"}
       /\ pc[p] = "done" =>
             /\ response[p].kind \in AskKinds
             /\ response[p].status = 200
             /\ response[p].kind = "Answered" <=> response[p].text # <<>>
             /\ response[p].kind = "Answered" <=> response[p].msg = ""
       /\ (pc[p] = "done" /\ "segment" \in ran[p]) =>
             /\ response[p].kind \in {"Answered", "NoConfidentMatch", "ComputationFailure"}
             /\ response[p].kind = "ComputationFailure" <=> ~Scored(p)

\* C9 witness: a failure raised inside vectorization, for a non-blank
\* question and a non-blank document, ended as a diagnostic result.
C9_Witness ==
    \E p \in Procs :
       /\ pc[p] = "done"
       /\ "segment" \in ran[p]
       /\ question[p] # <<>>
       /\ response[p].kind = "ComputationFailure"
       /\ response[p].status = 200

====
